---- MODULE Spec2Model ----
(***************************************************************************)
(* Model of the BIDS EEG sidecar generator (scripts/sidecar_generator):    *)
(*   generators/create_eeg_json.py   map_fields_from_sources, load_configs,*)
(*                                   create_eeg_json, validate_eeg_json    *)
(*   extractors/f11_parser.py        F11Parser, extract_from_f11_form      *)
(*   extractors/edf_header_parser.py extract_from_edf_header               *)
(*                                                                         *)
(* Three specifications:                                                   *)
(*   Spec    one run of create_eeg_json, from load_configs to the end;     *)
(*   SpecFn  single calls of the functions on bounded arbitrary inputs;    *)
(*   SpecF11 calls on one F11Parser and of extract_from_f11_form.          *)
(***************************************************************************)
EXTENDS Integers, Sequences, FiniteSets, TLC

VARIABLES
    pc,              \* position of the run inside create_eeg_json
    sidecar_config,  \* the parsed sidecar_config.yaml
    edf_metadata,    \* local of create_eeg_json
    f11_metadata,    \* local of create_eeg_json
    mapped_fields,   \* local of create_eeg_json
    eeg_json,        \* local of create_eeg_json: the document
    output_file,     \* content of the file at output_path
    call,            \* SpecFn: the function being called, with its arguments
    ret,             \* SpecFn: what the call returned, or that it raised
    cached_data,     \* SpecF11: F11Parser.cached_data of the parser observed
    f11_call,        \* SpecF11: the last call, with what it returned
    first_result     \* SpecF11: per patient id, what the first call returned

f11_vars == <<cached_data, f11_call, first_result>>

vars == <<pc, sidecar_config, edf_metadata, f11_metadata, mapped_fields,
          eeg_json, output_file, call, ret, f11_vars>>

run_vars == <<pc, sidecar_config, edf_metadata, f11_metadata, mapped_fields,
              eeg_json, output_file>>

fn_vars == <<call, ret>>

(***************************************************************************)
(* Bounds of the model.                                                    *)
(***************************************************************************)
MaxRules == 2       \* longest list of rules under 'sources'
MaxRequired == 2    \* longest eeg_json_required_fields list
MaxPathLen == 3     \* longest field path, in name and dot tokens

(***************************************************************************)
(* Python values.  A str is the sequence of its maximal dot-free runs and  *)
(* its dots: "a.b" is <<"a", ".", "b">>, "" is <<>>, "rest" is <<"rest">>. *)
(* Every other value carries its type in the field t.                      *)
(***************************************************************************)
None == [t |-> "none"]
Str(s) == [t |-> "str", s |-> s]
Num(n) == [t |-> "int", n |-> n]
List(l) == [t |-> "list", l |-> l]
Dict(d) == [t |-> "dict", d |-> d]

IsDict(x) == x.t = "dict"
IsList(x) == x.t = "list"

EmptyDict == [k \in {} |-> None]

\* dict.get(key, default) on the entries d of a dict
Get(d, key, default) == IF key \in DOMAIN d THEN d[key] ELSE default

\* list(d.keys()); the order of the keys is not modelled
Keys(d) == List(DOMAIN d)

\* a str without dots
S(name) == <<name>>

\* str.split('.')
RECURSIVE Split(_)
Split(s) ==
    IF s = <<>> THEN << <<>> >>
    ELSE IF Head(s) = "." THEN << <<>> >> \o Split(Tail(s))
    ELSE LET rest == Split(Tail(s))
         IN  << <<Head(s)>> \o Head(rest) >> \o Tail(rest)

(***************************************************************************)
(* f11_parser.py: F11Parser._get_nested_field                              *)
(***************************************************************************)
\* the loop "for part in parts" over the remaining parts
RECURSIVE Walk(_, _)
Walk(current, parts) ==
    IF parts = <<>> THEN current
    ELSE IF IsDict(current) /\ Head(parts) \in DOMAIN current.d
         THEN Walk(current.d[Head(parts)], Tail(parts))
         ELSE None

_get_nested_field(data, field_path) == Walk(data, Split(field_path))

(***************************************************************************)
(* create_eeg_json.py: map_fields_from_sources                             *)
(***************************************************************************)
source_key_mapping ==
    (S("edf_header") :> S("edf")) @@ (S("f11_form") :> S("f11"))
        @@ (S("xml_annotations") :> S("xml"))

\* MapField with a value kept once set (setdefault in place of assignment)
MapFieldFirstWins(mapped, bids_field, source_field, source_data) ==
    IF source_field \in DOMAIN source_data /\ bids_field \notin DOMAIN mapped
    THEN (bids_field :> source_data[source_field]) @@ mapped
    ELSE mapped

\* one pass of the loop over field_mapping.items(), on a dict source_data
MapField(mapped, bids_field, source_field, source_data) ==
    IF source_field \in DOMAIN source_data
    THEN (bids_field :> source_data[source_field]) @@ mapped
    ELSE mapped

\* the loop over field_mapping.items(); the keys of a dict are distinct, so
\* the order of the passes does not change the result
RECURSIVE MapItems(_, _, _, _)
MapItems(mapped, field_mapping, todo, source_data) ==
    IF todo = {} THEN mapped
    ELSE LET bids_field == CHOOSE b \in todo : TRUE
         IN  MapItems(MapField(mapped, bids_field, field_mapping[bids_field],
                               source_data),
                      field_mapping, todo \ {bids_field}, source_data)

\* "if source_key and source_key in source_data_dict"
SourceKnown(source_name, source_data_dict) ==
    /\ source_name \in DOMAIN source_key_mapping
    /\ source_key_mapping[source_name] # <<>>
    /\ source_key_mapping[source_name] \in DOMAIN source_data_dict

\* MapSource without the guard: source_data_dict[source_key] raises KeyError
MapSourceUnguarded(mapped, source_config, source_data_dict) ==
    IF SourceKnown(source_config.source, source_data_dict)
    THEN LET source_data ==
                 source_data_dict[source_key_mapping[source_config.source]]
             field_mapping == source_config.field_mapping
         IN  IF IsDict(source_data)
             THEN [raised |-> FALSE,
                   mapped |-> MapItems(mapped, field_mapping,
                                       DOMAIN field_mapping, source_data.d)]
             ELSE [raised |-> DOMAIN field_mapping # {}, mapped |-> mapped]
    ELSE [raised |-> TRUE, mapped |-> mapped]

\* the body of "for source_config in field_mapping_config"; on a source_data
\* that is no container (None, a number) "source_field in source_data" raises
\* TypeError in the first pass of the inner loop
MapSource(mapped, source_config, source_data_dict) ==
    IF SourceKnown(source_config.source, source_data_dict)
    THEN LET source_data ==
                 source_data_dict[source_key_mapping[source_config.source]]
             field_mapping == source_config.field_mapping
         IN  IF IsDict(source_data)
             THEN [raised |-> FALSE,
                   mapped |-> MapItems(mapped, field_mapping,
                                       DOMAIN field_mapping, source_data.d)]
             ELSE [raised |-> DOMAIN field_mapping # {}, mapped |-> mapped]
    ELSE [raised |-> FALSE, mapped |-> mapped]

RECURSIVE MapLoop(_, _, _, _)
MapLoop(mapped, rules, i, source_data_dict) ==
    IF i > Len(rules) THEN [raised |-> FALSE, mapped |-> mapped]
    ELSE LET r == MapSource(mapped, rules[i], source_data_dict)
         IN  IF r.raised THEN [raised |-> TRUE, mapped |-> EmptyDict]
             ELSE MapLoop(r.mapped, rules, i + 1, source_data_dict)

\* raised: an exception leaves the function and no mapping is returned
map_fields_from_sources(source_data_dict, field_mapping_config) ==
    IF IsList(field_mapping_config)
    THEN MapLoop(EmptyDict, field_mapping_config.l, 1, source_data_dict)
    ELSE [raised |-> TRUE, mapped |-> EmptyDict]

\* "return mapped_fields": the value the caller receives is the one dict
Returned(r) == Dict(r.mapped)

(***************************************************************************)
(* create_eeg_json.py: validate_eeg_json                                   *)
(***************************************************************************)
\* IsMissing with a truth test ("not eeg_json.get(field)"): 0 and [] count too
IsMissingFalsy(doc, field) ==
    \/ field \notin DOMAIN doc
    \/ doc[field].t = "none"
    \/ (doc[field].t = "str" /\ doc[field].s = <<>>)
    \/ (doc[field].t = "int" /\ doc[field].n = 0)
    \/ (doc[field].t = "list" /\ doc[field].l = <<>>)

\* "field not in eeg_json or eeg_json[field] is None or eeg_json[field] == ''"
IsMissing(doc, field) ==
    \/ field \notin DOMAIN doc
    \/ doc[field].t = "none"
    \/ (doc[field].t = "str" /\ doc[field].s = <<>>)

\* raised: .get on a value that is no dict, or a loop over a value that is no list
validate_eeg_json(doc, config) ==
    LET validation == Get(config, S("validation"), Dict(EmptyDict))
        required_fields ==
            Get(validation.d, S("eeg_json_required_fields"), List(<<>>))
    IN  IF ~IsDict(validation) \/ ~IsList(required_fields)
        THEN [raised |-> TRUE, missing_fields |-> <<>>, eeg_json |-> doc]
        ELSE [raised |-> FALSE,
              missing_fields |->
                  SelectSeq(required_fields.l, LAMBDA f : IsMissing(doc, f)),
              eeg_json |-> doc]

(***************************************************************************)
(* edf_header_parser.py and f11_parser.py: what the extractors return      *)
(***************************************************************************)
_get_placeholder_metadata ==
    [k \in {S("sampling_frequency"), S("recording_duration"),
            S("recording_start_time"), S("number_of_channels"),
            S("channel_names"), S("channel_units"), S("digital_minimum"),
            S("digital_maximum"), S("physical_minimum"),
            S("physical_maximum"), S("prefiltering"), S("patient_info"),
            S("recording_info"), S("equipment_info")} |-> None]

\* both branches return the placeholder
extract_from_edf_header == _get_placeholder_metadata

\* get_patient_f11_data on a new F11Parser, whose cache is empty
f11_data ==
    (S("demographics") :>
        Dict([k \in {S("age"), S("sex"), S("handedness"),
                     S("date_of_birth")} |-> None]))
    @@ (S("recording_parameters") :>
        Dict((S("task_description") :> Str(S("resting state EEG")))
             @@ [k \in {S("institution"), S("equipment_manufacturer"),
                        S("equipment_model"), S("sampling_rate"),
                        S("recording_duration")} |-> None]))
    @@ (S("clinical_info") :>
        Dict([k \in {S("diagnosis"), S("medications"),
                     S("clinical_notes")} |-> None]))
    @@ (S("study_info") :>
        Dict([k \in {S("visit_date"), S("visit_type"),
                     S("protocol_version")} |-> None]))

extract_for_eeg_json ==
    [k \in {S("task_description"), S("institution"),
            S("equipment_manufacturer"), S("equipment_model"),
            S("sampling_rate"), S("recording_duration")} |->
        f11_data[S("recording_parameters")].d[k]]

\* extraction_type defaults to "eeg_json"
extract_from_f11_form == extract_for_eeg_json

\* the values the except branch of create_eeg_json assigns
edf_fallback ==
    [k \in {S("sampling_frequency"), S("recording_duration"),
            S("number_of_channels")} |-> None]

f11_fallback ==
    [k \in {S("task_description"), S("institution"),
            S("equipment_manufacturer")} |-> None]

(***************************************************************************)
(* create_eeg_json.py: the document literal of create_eeg_json             *)
(***************************************************************************)
EegJsonLiteral(mapped, edf, f11) ==
    (S("TaskName") :>
        Get(mapped, S("TaskName"), Get(f11, S("task_description"), Str(S("rest")))))
    @@ (S("SamplingFrequency") :>
        Get(mapped, S("SamplingFrequency"), Get(edf, S("sampling_frequency"), None)))
    @@ (S("PowerLineFrequency") :> Get(mapped, S("PowerLineFrequency"), Num(60)))
    @@ (S("SoftwareFilters") :> Get(mapped, S("SoftwareFilters"), Str(S("n/a"))))
    @@ (S("RecordingDuration") :>
        Get(mapped, S("RecordingDuration"), Get(edf, S("recording_duration"), None)))
    @@ (S("RecordingType") :> Get(mapped, S("RecordingType"), Str(S("continuous"))))
    @@ (S("EEGReference") :>
        Get(mapped, S("EEGReference"), Get(edf, S("reference"), Str(<<>>))))
    @@ (S("EEGGround") :>
        Get(mapped, S("EEGGround"), Get(edf, S("ground"), Str(<<>>))))
    @@ (S("InstitutionName") :>
        Get(mapped, S("InstitutionName"), Get(f11, S("institution"), None)))
    @@ (S("InstitutionAddress") :>
        Get(mapped, S("InstitutionAddress"),
            Get(f11, S("institution_address"), Str(<<>>))))
    @@ (S("Manufacturer") :>
        Get(mapped, S("Manufacturer"), Get(f11, S("equipment_manufacturer"), None)))
    @@ (S("ManufacturersModelName") :>
        Get(mapped, S("ManufacturersModelName"),
            Get(f11, S("equipment_model"), None)))
    @@ (S("SoftwareVersions") :>
        Get(mapped, S("SoftwareVersions"), Get(edf, S("software_version"), Str(<<>>))))
    @@ (S("SubjectArtefactDescription") :>
        Get(mapped, S("SubjectArtefactDescription"), Str(<<>>)))
    @@ (S("HowManyBadChannels") :> Get(mapped, S("HowManyBadChannels"), Num(0)))
    @@ (S("EEGChannelCount") :>
        Get(mapped, S("EEGChannelCount"), Get(edf, S("number_of_channels"), None)))
    @@ (S("_dev_info") :>
        Dict((S("note") :>
                Str(S("Field mapping system active - remove this section when fully implemented")))
             @@ (S("mapped_fields_used") :> Keys(mapped))
             @@ (S("available_edf_fields") :> Keys(edf))
             @@ (S("available_f11_fields") :> Keys(f11))))

\* the literal, then every mapped field copied in (eeg_json.update(mapped_fields))
BuildEegJsonUpdated(mapped, edf, f11) == mapped @@ EegJsonLiteral(mapped, edf, f11)

\* eeg_json = {...}
BuildEegJson(mapped, edf, f11) == EegJsonLiteral(mapped, edf, f11)

(***************************************************************************)
(* Inputs: the configurations and arguments the model draws from.          *)
(***************************************************************************)
SourceNames ==
    {S("edf_header"), S("f11_form"), S("xml_annotations"), S("mri_header")}

BidsFields == {S("TaskName"), S("CapManufacturer")}

SourceFields == {S("task_description"), S("sampling_frequency")}

\* the empty field_mapping, every one-pair field_mapping, and one with two pairs
FieldMappings ==
    {EmptyDict}
    \cup {b :> f : <<b, f>> \in BidsFields \X SourceFields}
    \cup {(S("TaskName") :> S("task_description"))
          @@ (S("CapManufacturer") :> S("sampling_frequency"))}

SourceConfigs == [source : SourceNames, field_mapping : FieldMappings]

RuleLists == UNION {[1..n -> SourceConfigs] : n \in 0..MaxRules}

\* the 'sidecars' part of sidecar_config.yaml
SidecarsParts ==
    {EmptyDict,
     S("sidecars") :> Dict(S("eeg_json") :> None),
     S("sidecars") :> Dict(S("eeg_json") :> Dict(EmptyDict)),
     S("sidecars") :> Dict(S("eeg_json") :> Dict(S("sources") :> None))}
    \cup {S("sidecars") :> Dict(S("eeg_json") :> Dict(S("sources") :> List(rules)))
          : rules \in RuleLists}

RequiredNames == {S("TaskName"), S("SamplingFrequency"), S("CapManufacturer")}

RequiredLists == UNION {[1..n -> RequiredNames] : n \in 0..MaxRequired}

ValidationPart(required_fields) ==
    S("validation") :> Dict(S("eeg_json_required_fields") :> required_fields)

\* the 'validation' part of sidecar_config.yaml, for a run
RunValidationParts ==
    {EmptyDict,
     S("validation") :> None,
     S("validation") :> Dict(EmptyDict),
     ValidationPart(None),
     ValidationPart(List(<<>>)),
     ValidationPart(List(<<S("TaskName"), S("SamplingFrequency")>>))}

SidecarConfigs == {a @@ b : <<a, b>> \in SidecarsParts \X RunValidationParts}

(***************************************************************************)
(* Spec: one run of create_eeg_json                                        *)
(***************************************************************************)
Idle == [fn |-> "idle"]

Init ==
    /\ pc = "load_configs"
    /\ sidecar_config = EmptyDict
    /\ edf_metadata = None
    /\ f11_metadata = None
    /\ mapped_fields = None
    /\ eeg_json = None
    /\ output_file = None
    /\ call = Idle
    /\ ret = None
    /\ cached_data = EmptyDict
    /\ f11_call = Idle
    /\ first_result = EmptyDict

\* sidecar_config['sidecars']['eeg_json'] raises KeyError or TypeError
HasEegConfig(config) ==
    /\ S("sidecars") \in DOMAIN config
    /\ IsDict(config[S("sidecars")])
    /\ S("eeg_json") \in DOMAIN config[S("sidecars")].d

eeg_config == sidecar_config[S("sidecars")].d[S("eeg_json")]

\* load_configs: FileNotFoundError or yaml.YAMLError, then sys.exit(1)
LoadConfigsFails ==
    /\ pc = "load_configs"
    /\ pc' = "exit"
    /\ UNCHANGED <<sidecar_config, edf_metadata, f11_metadata, mapped_fields,
                   eeg_json, output_file, call, ret, f11_vars>>

\* load_configs returns, then eeg_config = sidecar_config['sidecars']['eeg_json']
LoadConfigs ==
    /\ pc = "load_configs"
    /\ \E config \in SidecarConfigs :
        /\ sidecar_config' = config
        /\ pc' = IF HasEegConfig(config) THEN "extract" ELSE "error"
    /\ UNCHANGED <<edf_metadata, f11_metadata, mapped_fields, eeg_json,
                   output_file, call, ret, f11_vars>>

\* the try block: the extractors return, then eeg_config.get('sources', [])
\* raises AttributeError on an eeg_config that is None, and the except branch
\* assigns the fallback values
ExtractMetadata ==
    /\ pc = "extract"
    /\ IF IsDict(eeg_config)
       THEN /\ edf_metadata' = Dict(extract_from_edf_header)
            /\ f11_metadata' = Dict(extract_from_f11_form)
       ELSE /\ edf_metadata' = Dict(edf_fallback)
            /\ f11_metadata' = Dict(f11_fallback)
    /\ pc' = "map_fields"
    /\ UNCHANGED <<sidecar_config, mapped_fields, eeg_json, output_file, call, ret, f11_vars>>

all_source_data == (S("edf") :> edf_metadata) @@ (S("f11") :> f11_metadata)

\* "if eeg_config and 'sources' in eeg_config"
HasSources(config) ==
    /\ IsDict(config)
    /\ config.d # EmptyDict
    /\ S("sources") \in DOMAIN config.d

MapFields ==
    /\ pc = "map_fields"
    /\ IF HasSources(eeg_config)
       THEN LET r == map_fields_from_sources(all_source_data,
                                             eeg_config.d[S("sources")])
            IN  IF r.raised
                THEN pc' = "error" /\ UNCHANGED mapped_fields
                ELSE pc' = "build" /\ mapped_fields' = Dict(r.mapped)
       ELSE pc' = "build" /\ mapped_fields' = Dict(EmptyDict)
    /\ UNCHANGED <<sidecar_config, edf_metadata, f11_metadata, eeg_json,
                   output_file, call, ret, f11_vars>>

BuildDocument ==
    /\ pc = "build"
    /\ eeg_json' = Dict(BuildEegJson(mapped_fields.d, edf_metadata.d, f11_metadata.d))
    /\ pc' = "write"
    /\ UNCHANGED <<sidecar_config, edf_metadata, f11_metadata, mapped_fields,
                   output_file, call, ret, f11_vars>>

\* os.makedirs raises, outside the try block
MakeDirsFails ==
    /\ pc = "write"
    /\ pc' = "error"
    /\ UNCHANGED <<sidecar_config, edf_metadata, f11_metadata, mapped_fields,
                   eeg_json, output_file, call, ret, f11_vars>>

\* open or json.dump raises, inside the try block: sys.exit(1)
WriteFails ==
    /\ pc = "write"
    /\ pc' = "exit"
    /\ UNCHANGED <<sidecar_config, edf_metadata, f11_metadata, mapped_fields,
                   eeg_json, output_file, call, ret, f11_vars>>

WriteFile ==
    /\ pc = "write"
    /\ output_file' = eeg_json
    /\ pc' = "validate"
    /\ UNCHANGED <<sidecar_config, edf_metadata, f11_metadata, mapped_fields,
                   eeg_json, call, ret, f11_vars>>

\* validate_eeg_json inside the try block: what it raises ends in sys.exit(1)
Validate ==
    /\ pc = "validate"
    /\ LET r == validate_eeg_json(eeg_json.d, sidecar_config)
       IN  /\ pc' = IF r.raised THEN "exit" ELSE "done"
           /\ eeg_json' = Dict(r.eeg_json)
    /\ UNCHANGED <<sidecar_config, edf_metadata, f11_metadata, mapped_fields,
                   output_file, call, ret, f11_vars>>

Next ==
    \/ LoadConfigsFails
    \/ LoadConfigs
    \/ ExtractMetadata
    \/ MapFields
    \/ BuildDocument
    \/ MakeDirsFails
    \/ WriteFails
    \/ WriteFile
    \/ Validate

Spec == Init /\ [][Next]_vars

(***************************************************************************)
(* SpecFn: single calls of map_fields_from_sources, validate_eeg_json and  *)
(* _get_nested_field, on arguments drawn from bounded sets.                *)
(***************************************************************************)
\* source data under "edf" and "f11"; None stands for an entry that is no mapping
EdfDatas ==
    {None,
     Dict(EmptyDict),
     Dict(S("sampling_frequency") :> None),
     Dict(S("sampling_frequency") :> Num(256))}

F11Datas ==
    {None,
     Dict(S("task_description") :> None),
     Dict(S("task_description") :> Str(S("resting"))),
     Dict((S("task_description") :> Str(S("resting")))
          @@ (S("sampling_frequency") :> Num(512)))}

SourceDataDicts ==
    {(S("edf") :> e) @@ (S("f11") :> f) : <<e, f>> \in EdfDatas \X F11Datas}

FieldMappingConfigs == {None} \cup {List(rules) : rules \in RuleLists}

DocValues == {None, Str(<<>>), Str(S("rest")), Num(0), List(<<>>)}

DocFields == {S("TaskName"), S("SamplingFrequency")}

Documents == UNION {[D -> DocValues] : D \in SUBSET DocFields}

ValidationConfigs ==
    {EmptyDict,
     S("validation") :> None,
     S("validation") :> Dict(EmptyDict),
     ValidationPart(None)}
    \cup {ValidationPart(List(l)) : l \in RequiredLists}

PathTokens == {"a", "b", "."}

\* every str of at most MaxPathLen tokens: two names never touch
Paths ==
    {p \in UNION {[1..n -> PathTokens] : n \in 0..MaxPathLen} :
        \A i \in 1..(Len(p) - 1) : p[i] = "." \/ p[i + 1] = "."}

Leaves == {None, Num(1)}

InnerDicts ==
    UNION {{Dict(d) : d \in [D -> Leaves]} : D \in SUBSET {S("b"), <<>>}}

NestedDatas ==
    {None}
    \cup UNION {{Dict(d) : d \in [D -> Leaves \cup InnerDicts]}
                : D \in SUBSET {S("a"), <<>>}}

CallMapFields ==
    /\ call = Idle
    /\ \E source_data_dict \in SourceDataDicts, config \in FieldMappingConfigs :
        /\ call' = [fn |-> "map_fields_from_sources",
                    source_data_dict |-> source_data_dict,
                    field_mapping_config |-> config]
        /\ ret' = map_fields_from_sources(source_data_dict, config)
    /\ UNCHANGED <<run_vars, f11_vars>>

\* source data that is nested, as get_patient_f11_data returns it, or that
\* holds a key with a dot in it
DottedPath == <<"recording_parameters", ".", "task_description">>

NestedF11Datas ==
    {Dict(f11_data),
     Dict(S("recording_parameters") :> Dict(S("task_description") :> None)),
     Dict(DottedPath :> Str(S("flat")))}

NestedSourceDataDicts ==
    {(S("edf") :> Dict(EmptyDict)) @@ (S("f11") :> f) : f \in NestedF11Datas}

NestedSourceConfigs ==
    [source : {S("f11_form"), S("edf_header")},
     field_mapping :
         {S("TaskName") :> path :
             path \in {DottedPath, S("recording_parameters"),
                       S("task_description")}}]

NestedRuleLists == UNION {[1..n -> NestedSourceConfigs] : n \in 0..MaxRules}

CallMapFieldsNested ==
    /\ call = Idle
    /\ \E source_data_dict \in NestedSourceDataDicts, rules \in NestedRuleLists :
        /\ call' = [fn |-> "map_fields_from_sources",
                    source_data_dict |-> source_data_dict,
                    field_mapping_config |-> List(rules)]
        /\ ret' = map_fields_from_sources(source_data_dict, List(rules))
    /\ UNCHANGED <<run_vars, f11_vars>>

CallValidate ==
    /\ call = Idle
    /\ \E doc \in Documents, config \in ValidationConfigs :
        /\ call' = [fn |-> "validate_eeg_json", eeg_json |-> doc,
                    sidecar_config |-> config]
        /\ ret' = validate_eeg_json(doc, config)
    /\ UNCHANGED <<run_vars, f11_vars>>

CallGetNestedField ==
    /\ call = Idle
    /\ \E data \in NestedDatas, field_path \in Paths :
        /\ call' = [fn |-> "_get_nested_field", data |-> data,
                    field_path |-> field_path]
        /\ ret' = _get_nested_field(data, field_path)
    /\ UNCHANGED <<run_vars, f11_vars>>

Return ==
    /\ call # Idle
    /\ call' = Idle
    /\ ret' = None
    /\ UNCHANGED <<run_vars, f11_vars>>

NextFn ==
    \/ CallMapFields
    \/ CallMapFieldsNested
    \/ CallValidate
    \/ CallGetNestedField
    \/ Return

SpecFn == Init /\ [][NextFn]_vars

(***************************************************************************)
(* Properties of map_fields_from_sources, checked under SpecFn.            *)
(***************************************************************************)
InMapFields ==
    call.fn = "map_fields_from_sources" /\ IsList(call.field_mapping_config)

\* the source mapping a rule names, among the supplied ones
NamedSources(rule, source_data_dict) ==
    {key \in DOMAIN source_data_dict :
        /\ rule.source \in DOMAIN source_key_mapping
        /\ source_key_mapping[rule.source] = key}

UnknownSource(rule, source_data_dict) == NamedSources(rule, source_data_dict) = {}

MalformedSource(rule, source_data_dict) ==
    \E key \in NamedSources(rule, source_data_dict) :
        ~IsDict(source_data_dict[key])

\* the rule maps F, and the lookup of its source path finds a stored value
Stored(rule, F, source_data_dict) ==
    {source_data_dict[key].d[rule.field_mapping[F]] :
        key \in {k \in NamedSources(rule, source_data_dict) :
                    /\ F \in DOMAIN rule.field_mapping
                    /\ IsDict(source_data_dict[k])
                    /\ rule.field_mapping[F] \in DOMAIN source_data_dict[k].d}}

\* rule resolves F to the present value v
ResolvesTo(rule, F, source_data_dict, v) ==
    v \in Stored(rule, F, source_data_dict) /\ v # None

\* rule maps F to a path that resolves to Absent: the key is missing from the
\* source mapping, or the source stores null for it
ResolvesAbsent(rule, F, source_data_dict) ==
    /\ F \in DOMAIN rule.field_mapping
    /\ ~UnknownSource(rule, source_data_dict)
    /\ ~MalformedSource(rule, source_data_dict)
    /\ Stored(rule, F, source_data_dict) \subseteq {None}

RemoveAt(seq, i) == SubSeq(seq, 1, i - 1) \o SubSeq(seq, i + 1, Len(seq))

\* C1: when exactly two rules map F, the earlier one resolving to a present
\* value v and the later one to Absent (key missing or null stored), the
\* merged value of F is v.
C1_LaterAbsentKeepsEarlier ==
    (InMapFields /\ ~ret.raised) =>
        LET rules == call.field_mapping_config.l
            sdd == call.source_data_dict
        IN  \A i, j \in 1..Len(rules), F \in BidsFields :
                \A v \in Stored(rules[i], F, sdd) :
                    ( /\ i < j
                      /\ ResolvesTo(rules[i], F, sdd, v)
                      /\ ResolvesAbsent(rules[j], F, sdd)
                      /\ \A k \in 1..Len(rules) \ {i, j} :
                            F \notin DOMAIN rules[k].field_mapping )
                    => (F \in DOMAIN ret.mapped /\ ret.mapped[F] = v)

\* C2: when two rules map F and the later one, the last rule that maps F,
\* resolves to a present value w, the merged value of F is w, whatever the
\* earlier rule resolved to.
C2_LaterPresentWins ==
    (InMapFields /\ ~ret.raised) =>
        LET rules == call.field_mapping_config.l
            sdd == call.source_data_dict
        IN  \A i, j \in 1..Len(rules), F \in BidsFields :
                \A w \in Stored(rules[j], F, sdd) :
                    ( /\ i < j
                      /\ F \in DOMAIN rules[i].field_mapping
                      /\ ResolvesTo(rules[j], F, sdd, w)
                      /\ \A k \in (j + 1)..Len(rules) :
                            F \notin DOMAIN rules[k].field_mapping )
                    => (F \in DOMAIN ret.mapped /\ ret.mapped[F] = w)

\* a call where an earlier present value of another kind is replaced by the
\* later present value
C2_Witness ==
    /\ InMapFields
    /\ ~ret.raised
    /\ LET rules == call.field_mapping_config.l
           sdd == call.source_data_dict
           F == S("TaskName")
       IN  /\ Len(rules) = 2
           /\ ResolvesTo(rules[1], F, sdd, Num(256))
           /\ ResolvesTo(rules[2], F, sdd, Str(S("resting")))
           /\ ret.mapped[F] = Str(S("resting"))

\* C3: a rule whose source name has no entry in the supplied source mappings
\* changes nothing: the call ends as the call without that rule ends, in the
\* mapping returned and in whether an exception is raised; a list of such
\* rules alone returns the empty mapping.
C3_UnknownSourceSkipped ==
    InMapFields =>
        LET rules == call.field_mapping_config.l
            sdd == call.source_data_dict
        IN  /\ \A i \in 1..Len(rules) :
                   UnknownSource(rules[i], sdd) =>
                       ret = map_fields_from_sources(sdd, List(RemoveAt(rules, i)))
            /\ (\A i \in 1..Len(rules) : UnknownSource(rules[i], sdd)) =>
                   (~ret.raised /\ ret.mapped = EmptyDict)

\* a call with the unknown source first and a rule that supplies a value after it
C3_Witness ==
    /\ InMapFields
    /\ ~ret.raised
    /\ LET rules == call.field_mapping_config.l
           sdd == call.source_data_dict
       IN  /\ Len(rules) = 2
           /\ rules[1].source = S("xml_annotations")
           /\ rules[1].field_mapping # EmptyDict
           /\ UnknownSource(rules[1], sdd)
           /\ ResolvesTo(rules[2], S("TaskName"), sdd, Str(S("resting")))
           /\ ret.mapped = (S("TaskName") :> Str(S("resting")))

\* C9: a source entry that is not a mapping fails its own rule only: the call
\* returns, with the mapping the other rules give.
C9_MalformedSourceContained ==
    InMapFields =>
        LET rules == call.field_mapping_config.l
            sdd == call.source_data_dict
        IN  /\ ~ret.raised
            /\ \A i \in 1..Len(rules) :
                   MalformedSource(rules[i], sdd) =>
                       ret = map_fields_from_sources(sdd, List(RemoveAt(rules, i)))

(***************************************************************************)
(* Properties of validate_eeg_json and _get_nested_field, under SpecFn.    *)
(***************************************************************************)
InValidate == call.fn = "validate_eeg_json"

\* absent from the document, null, or the empty string
CountsAsMissing(doc, field) ==
    \/ field \notin DOMAIN doc
    \/ doc[field] \in {None, Str(<<>>)}

\* the places of required_fields that hold a missing field
MissingPlaces(doc, required) ==
    {i \in 1..Len(required) : CountsAsMissing(doc, required[i])}

\* the k-th of them, in the order of required_fields
MissingPlace(doc, required, k) ==
    CHOOSE i \in MissingPlaces(doc, required) :
        Cardinality({j \in MissingPlaces(doc, required) : j <= i}) = k

\* C6: missing_fields holds exactly the required fields that are absent from
\* the document, null or the empty string, in the order of required_fields;
\* a field holding 0 or an empty list is not reported.
C6_MissingFieldsExact ==
    (InValidate /\ ~ret.raised) =>
        LET doc == call.eeg_json
            required ==
                Get(Get(call.sidecar_config, S("validation"), Dict(EmptyDict)).d,
                    S("eeg_json_required_fields"), List(<<>>)).l
        IN  /\ Len(ret.missing_fields) = Cardinality(MissingPlaces(doc, required))
            /\ \A k \in 1..Len(ret.missing_fields) :
                   ret.missing_fields[k] = required[MissingPlace(doc, required, k)]

\* both fields required; TaskName holds 0 and SamplingFrequency holds null
C6_Witness ==
    /\ InValidate
    /\ ~ret.raised
    /\ call.sidecar_config =
           ValidationPart(List(<<S("TaskName"), S("SamplingFrequency")>>))
    /\ call.eeg_json =
           (S("TaskName") :> Num(0)) @@ (S("SamplingFrequency") :> None)
    /\ ret.missing_fields = <<S("SamplingFrequency")>>

InGetNestedField == call.fn = "_get_nested_field"

DotPlaces(path) == {i \in 1..Len(path) : path[i] = "."}

\* the place of the k-th dot; 0 before the first and Len + 1 after the last
DotPlace(path, k) ==
    IF k = 0 THEN 0
    ELSE IF k > Cardinality(DotPlaces(path)) THEN Len(path) + 1
    ELSE CHOOSE i \in DotPlaces(path) :
             Cardinality({j \in DotPlaces(path) : j <= i}) = k

\* the k-th segment of a dot-separated path
Segment(path, k) ==
    SubSeq(path, DotPlace(path, k - 1) + 1, DotPlace(path, k) - 1)

\* the node reached after k segments, Absent once a segment fails
RECURSIVE NodeAfter(_, _, _)
NodeAfter(data, path, k) ==
    IF k = 0 THEN data
    ELSE LET node == NodeAfter(data, path, k - 1)
         IN  IF IsDict(node) /\ Segment(path, k) \in DOMAIN node.d
             THEN node.d[Segment(path, k)]
             ELSE None

\* C8: the resolver returns Absent for the empty path, Absent once a segment
\* is missing or the node is no mapping, and the value at the last segment
\* otherwise.
C8_ResolverTotal ==
    InGetNestedField =>
        ret = IF call.field_path = <<>>
              THEN None
              ELSE NodeAfter(call.data, call.field_path,
                             Cardinality(DotPlaces(call.field_path)) + 1)

(***************************************************************************)
(* Properties of a run of create_eeg_json, checked under Spec.             *)
(***************************************************************************)
\* the keys of the document literal
EegJsonSchema ==
    {S("TaskName"), S("SamplingFrequency"), S("PowerLineFrequency"),
     S("SoftwareFilters"), S("RecordingDuration"), S("RecordingType"),
     S("EEGReference"), S("EEGGround"), S("InstitutionName"),
     S("InstitutionAddress"), S("Manufacturer"), S("ManufacturersModelName"),
     S("SoftwareVersions"), S("SubjectArtefactDescription"),
     S("HowManyBadChannels"), S("EEGChannelCount"), S("_dev_info")}

\* C4: the key set of the built document is exactly the fixed schema,
\* whatever the sources hold and whatever fields the rules name.
C4_SchemaClosed ==
    IsDict(eeg_json) => DOMAIN eeg_json.d = EegJsonSchema

\* a document built while the merged mapping holds a field outside the schema
C4_Witness ==
    /\ IsDict(eeg_json)
    /\ S("CapManufacturer") \in DOMAIN mapped_fields.d
    /\ S("CapManufacturer") \notin DOMAIN eeg_json.d

\* the defaults the document literal declares
DeclaredDefaults ==
    (S("TaskName") :> Str(S("rest")))
    @@ (S("PowerLineFrequency") :> Num(60))
    @@ (S("SoftwareFilters") :> Str(S("n/a")))
    @@ (S("RecordingType") :> Str(S("continuous")))
    @@ (S("EEGReference") :> Str(<<>>))
    @@ (S("EEGGround") :> Str(<<>>))
    @@ (S("InstitutionAddress") :> Str(<<>>))
    @@ (S("SoftwareVersions") :> Str(<<>>))
    @@ (S("SubjectArtefactDescription") :> Str(<<>>))
    @@ (S("HowManyBadChannels") :> Num(0))

\* C5: every field of the document holds the merged value if there is one,
\* else its declared default, else null; the sources do not enter.
C5_MergedThenDefault ==
    IsDict(eeg_json) =>
        \A F \in EegJsonSchema \ {S("_dev_info")} :
            eeg_json.d[F] =
                Get(mapped_fields.d, F, Get(DeclaredDefaults, F, None))

\* C7: validation leaves the document as written and never ends the run:
\* once the document is written the run is validating or done.
C7_ValidationNeverEndsRun ==
    IsDict(output_file) =>
        (pc \in {"validate", "done"} /\ eeg_json = output_file)

\* C10: a run that ends has produced a schema-complete document, or has
\* failed before extraction began.
C10_DocumentOrEarlyFailure ==
    /\ pc \in {"exit", "error"} => edf_metadata = None
    /\ pc = "done" => (IsDict(output_file)
                       /\ DOMAIN output_file.d = EegJsonSchema)

(***************************************************************************)
(* Provenance of the merge, checked under SpecFn.                          *)
(***************************************************************************)
\* the rules whose lookup of F finds a stored value
Suppliers(rules, F, source_data_dict) ==
    {j \in 1..Len(rules) : Stored(rules[j], F, source_data_dict) # {}}

\* the (source name, source path) pair of the last of them
LastSupplier(rules, F, source_data_dict) ==
    LET j == CHOOSE m \in Suppliers(rules, F, source_data_dict) :
                 \A n \in Suppliers(rules, F, source_data_dict) : n <= m
    IN  <<rules[j].source, rules[j].field_mapping[F]>>

\* C11: the merge returns the pair (merged, provenance); provenance has the
\* keys of merged, and provenance[F] is the (source name, source path) pair
\* of the rule that supplied merged[F].
C11_ProvenanceReturned ==
    (InMapFields /\ ~ret.raised) =>
        LET rules == call.field_mapping_config.l
            sdd == call.source_data_dict
            value == Returned(ret)
        IN  /\ value.t = "tuple"
            /\ Len(value.l) = 2
            /\ IsDict(value.l[1])
            /\ IsDict(value.l[2])
            /\ value.l[1].d = ret.mapped
            /\ DOMAIN value.l[2].d = DOMAIN value.l[1].d
            /\ \A F \in DOMAIN value.l[1].d :
                   value.l[2].d[F] = LastSupplier(rules, F, sdd)

(***************************************************************************)
(* The merge against the path resolver, checked under SpecFn.              *)
(***************************************************************************)
\* C12: a rule pair (F, path) whose path the resolver resolves to a present
\* value in the rule's source mapping, with no later rule mapping F, gives
\* merged[F] = resolve(source mapping, path), for dotted paths too.
C12_MergeResolvesPaths ==
    (InMapFields /\ ~ret.raised) =>
        LET rules == call.field_mapping_config.l
            sdd == call.source_data_dict
        IN  \A j \in 1..Len(rules), F \in BidsFields :
                \A key \in NamedSources(rules[j], sdd) :
                    ( /\ F \in DOMAIN rules[j].field_mapping
                      /\ IsDict(sdd[key])
                      /\ _get_nested_field(sdd[key], rules[j].field_mapping[F]) # None
                      /\ \A k \in (j + 1)..Len(rules) :
                            F \notin DOMAIN rules[k].field_mapping )
                    => ( /\ F \in DOMAIN ret.mapped
                         /\ ret.mapped[F] =
                                _get_nested_field(sdd[key],
                                                  rules[j].field_mapping[F]) )

(***************************************************************************)
(* SpecF11: f11_parser.py, calls on one F11Parser and calls of             *)
(* extract_from_f11_form, which builds a parser of its own.                *)
(***************************************************************************)
PatientIds == {S("13UL"), S("14XK"), S("15AB")}

ExtractionTypes ==
    {S("eeg_json"), S("participants_tsv"), S("sessions_tsv"), S("custom")}

\* get_patient_f11_data that returns without storing the data
CacheStoreSkipped(cached, patient_id, data) == cached

\* "self.cached_data[patient_id] = f11_data"
CacheStore(cached, patient_id, data) == (patient_id :> data) @@ cached

\* F11Parser.get_patient_f11_data on a parser whose cache is cached:
\* what it returns, the cache afterwards, and whether the cache served it
get_patient_f11_data(cached, patient_id) ==
    IF patient_id \in DOMAIN cached
    THEN [result |-> cached[patient_id], cached |-> cached, hit |-> TRUE]
    ELSE [result |-> Dict(f11_data),
          cached |-> CacheStore(cached, patient_id, Dict(f11_data)),
          hit |-> FALSE]

\* the dict literal an extract_for_... method returns
View(data, section, keys) == Dict([k \in keys |-> data.d[section].d[k]])

ExtractForEegJsonOf(data) ==
    View(data, S("recording_parameters"),
         {S("task_description"), S("institution"), S("equipment_manufacturer"),
          S("equipment_model"), S("sampling_rate"), S("recording_duration")})

ExtractForParticipantsTsvOf(data) ==
    View(data, S("demographics"), {S("age"), S("sex"), S("handedness")})

ExtractForSessionsTsvOf(data) ==
    View(data, S("study_info"),
         {S("visit_date"), S("visit_type"), S("protocol_version")})

\* the branches of extract_from_f11_form
ExtractAs(extraction_type, data) ==
    IF extraction_type = S("eeg_json") THEN ExtractForEegJsonOf(data)
    ELSE IF extraction_type = S("participants_tsv")
         THEN ExtractForParticipantsTsvOf(data)
    ELSE IF extraction_type = S("sessions_tsv")
         THEN ExtractForSessionsTsvOf(data)
    ELSE data

\* what the first call for each id returned, kept for the properties
Remember(first, patient_id, data) ==
    IF patient_id \in DOMAIN first THEN first ELSE (patient_id :> data) @@ first

\* F11Parser(): a new parser is observed
NewParser ==
    /\ cached_data' = EmptyDict
    /\ first_result' = EmptyDict
    /\ f11_call' = [fn |-> "__init__"]
    /\ UNCHANGED <<run_vars, fn_vars>>

GetPatientF11Data ==
    \E patient_id \in PatientIds :
        LET r == get_patient_f11_data(cached_data, patient_id)
        IN  /\ cached_data' = r.cached
            /\ first_result' = Remember(first_result, patient_id, r.result)
            /\ f11_call' = [fn |-> "get_patient_f11_data",
                            patient_id |-> patient_id, hit |-> r.hit,
                            f11_data |-> r.result, result |-> r.result]
            /\ UNCHANGED <<run_vars, fn_vars>>

\* extract_for_eeg_json on the parser observed: get_patient_f11_data, then the view
ExtractForEegJson ==
    \E patient_id \in PatientIds :
        LET r == get_patient_f11_data(cached_data, patient_id)
        IN  /\ cached_data' = r.cached
            /\ first_result' = Remember(first_result, patient_id, r.result)
            /\ f11_call' = [fn |-> "extract_for_eeg_json",
                            patient_id |-> patient_id, hit |-> r.hit,
                            f11_data |-> r.result,
                            result |-> ExtractForEegJsonOf(r.result)]
            /\ UNCHANGED <<run_vars, fn_vars>>

\* extract_from_f11_form: a parser of its own, so the parser observed is untouched
ExtractFromF11Form ==
    \E patient_id \in PatientIds, extraction_type \in ExtractionTypes :
        LET r == get_patient_f11_data(EmptyDict, patient_id)
        IN  /\ f11_call' = [fn |-> "extract_from_f11_form",
                            patient_id |-> patient_id, hit |-> r.hit,
                            f11_data |-> r.result,
                            result |-> ExtractAs(extraction_type, r.result)]
            /\ UNCHANGED <<cached_data, first_result, run_vars, fn_vars>>

NextF11 ==
    \/ NewParser
    \/ GetPatientF11Data
    \/ ExtractForEegJson
    \/ ExtractFromF11Form

SpecF11 == Init /\ [][NextF11]_vars

\* C13: on one parser, every call for an id gets a mapping equal to what the
\* first call for that id got; the cache holds one entry for each id
\* requested and for no other; a call the cache serves gets what a parser
\* with an empty cache would compute.
C13_ReadIdempotent ==
    /\ DOMAIN cached_data = DOMAIN first_result
    /\ f11_call.fn \in {"get_patient_f11_data", "extract_for_eeg_json"} =>
        /\ f11_call.patient_id \in DOMAIN cached_data
        /\ f11_call.f11_data = first_result[f11_call.patient_id]
        /\ f11_call.hit =>
               f11_call.f11_data =
                   get_patient_f11_data(EmptyDict, f11_call.patient_id).result

\* a repeated call, served by a cache that holds two ids
C13_Witness ==
    /\ f11_call.fn = "get_patient_f11_data"
    /\ f11_call.hit
    /\ Cardinality(DOMAIN cached_data) = 2
    /\ f11_call.result = first_result[f11_call.patient_id]

====
